---- MODULE Spec2Model ----
(***************************************************************************)
(* Peer identity resolution (@libp2p/peer-id) and the RSA key codec        *)
(* (@libp2p/crypto keys/rsa/utils.ts) of js-libp2p.                        *)
(*                                                                         *)
(* Every operation of the two modules is a synchronous function of its     *)
(* arguments.  The state records the last call: which operation ran (op),  *)
(* its argument (arg), its outcome (res: a returned value or a thrown      *)
(* error) and the functions it invoked on the way, in order (trace).       *)
(*                                                                         *)
(* WebRTCDirectTransport.dial is asynchronous: pc is the await the dial    *)
(* is suspended at, signal the state of options.signal, peerConnection     *)
(* the RTCPeerConnection that _connect created.                            *)
(*                                                                         *)
(* Byte strings that only ever reach a library decoder are represented by  *)
(* what the decoders make of them: a digest by the key it parses to and    *)
(* the text it decodes to, a buffer by its reading as a multihash and its  *)
(* reading as a CID.  An optional value is a sequence of length 0 or 1.    *)
(***************************************************************************)
EXTENDS Integers, Sequences, FiniteSets, TLC

VARIABLES op, arg, res, trace, pc, signal, peerConnection

vars == <<op, arg, res, trace, pc, signal, peerConnection>>

\* the state of a dial in flight (WebRTCDirectTransport)
dvars == <<pc, signal, peerConnection>>

----------------------------------------------------------------------------
(* Outcomes of a call *)

Ok(v) == [kind |-> "ok", value |-> v]

Err(name, message) == [kind |-> "err", name |-> name, message |-> message]

\* what a function hands back: its outcome and the calls it made
Done(out, calls) == [out |-> out, calls |-> calls]

----------------------------------------------------------------------------
(* Multiformats constants *)

LIBP2P_KEY_CODE == 114

TRANSPORT_IPFS_GATEWAY_HTTP_CODE == 2336

\* identity.code of multiformats/hashes/identity
IDENTITY_CODE == 0

\* sha256.code of multiformats/hashes/sha2
SHA256_CODE == 18

----------------------------------------------------------------------------
(* Input domains *)

\* what publicKeyFromMultihash makes of a digest: a key of this algorithm, or
\* "none" when the bytes are no public-key encoding and it throws
KeyParses == {"Ed25519", "secp256k1", "RSA", "none"}

\* what the digest bytes decode to as UTF-8 text
Texts == {"https://example.com", "https://example.com/", "not a url"}

Digests == [key : KeyParses, text : Texts]

\* the two codes the resolver knows and one it does not (sha2-512)
MhCodes == {IDENTITY_CODE, SHA256_CODE, 19}

Multihashes == [code : MhCodes, digest : Digests]

Option(S) == {<<>>} \cup {<<x>> : x \in S}

\* the two peer id codecs, dag-pb (0x70, the codec of every CIDv0) and raw (0x55)
CidCodes == {LIBP2P_KEY_CODE, TRANSPORT_IPFS_GATEWAY_HTTP_CODE, 112, 85}

\* a CID object as peerIdFromCID reads it: version, code, multihash, any of the
\* first and last possibly missing; present is FALSE for a null cid
\* (a version-0 CID always has the dag-pb codec)
CIDs ==
  {c \in [present : {TRUE}, version : Option({0, 1}), code : CidCodes,
          multihash : Option(Multihashes)] : c.version = <<0>> => c.code = 112}
  \cup [present : {FALSE}, version : {<<>>}, code : {85}, multihash : {<<>>}]

\* the CIDs CID.decode can return
DecodedCIDs == {c \in CIDs : c.present /\ c.version # <<>> /\ c.multihash # <<>>}

----------------------------------------------------------------------------
(* Collaborators of peerIdFromMultihash *)

\* publicKeyFromMultihash: the key the digest encodes, or a throw
publicKeyFromMultihash(multihash) ==
  IF multihash.digest.key = "none"
  THEN Err("Error", "not a public key")
  ELSE Ok([type |-> multihash.digest.key, multihash |-> multihash])

\* uint8ArrayToString(bytes): the UTF-8 text of the bytes; never throws
uint8ArrayToString(digest) == digest.text

\* new URL(str): the parsed URL, serialised (href), or a TypeError
URL(str) ==
  CASE str = "https://example.com" -> Ok("https://example.com/")
    [] str = "https://example.com/" -> Ok("https://example.com/")
    [] OTHER -> Err("TypeError", "Invalid URL")

\* uint8ArrayFromString(str): the UTF-8 bytes of a string, which parse as no key
uint8ArrayFromString(str) == [key |-> "none", text |-> str]

----------------------------------------------------------------------------
(* Peer id value types (peer-id.js) *)

RSAPeerIdClass(init) ==
  [type |-> "RSA", multihash |-> init.multihash, publicKey |-> init.publicKey, url |-> <<>>]

Ed25519PeerIdClass(init) ==
  [type |-> "Ed25519", multihash |-> init.multihash, publicKey |-> init.publicKey, url |-> <<>>]

Secp256k1PeerIdClass(init) ==
  [type |-> "secp256k1", multihash |-> init.multihash, publicKey |-> init.publicKey, url |-> <<>>]

\* the multihash of a URL peer id is the identity digest of the URL's string form
URLPeerIdClass(url) ==
  [type |-> "url",
   multihash |-> [code |-> IDENTITY_CODE, digest |-> uint8ArrayFromString(url)],
   publicKey |-> <<>>,
   url |-> <<url>>]

----------------------------------------------------------------------------
(* peerIdFromMultihash, peerIdFromCID *)

\* isIdentityMultihash taking every code but sha2-256 for the identity code
isIdentityMultihash_AnyOther(multihash) == multihash.code # SHA256_CODE

isIdentityMultihash(multihash) == multihash.code = IDENTITY_CODE

\* isSha256Multihash comparing with the code of sha2-512
isSha256Multihash_WrongCode(multihash) == multihash.code = 19

isSha256Multihash(multihash) == multihash.code = SHA256_CODE

\* the catch block of peerIdFromMultihash: "was not Ed or secp key, try URL"
UrlFallback(digest, calls) ==
  LET url == uint8ArrayToString(digest)
      parsed == URL(url)
  IN  IF parsed.kind = "ok"
      THEN Done(Ok(URLPeerIdClass(parsed.value)), calls \o <<"URL">>)
      ELSE Done(parsed, calls \o <<"URL">>)

\* peerIdFromMultihash with the catch block also run for a key of an
\* unsupported algorithm
peerIdFromMultihash_UrlForAnyKey(multihash) ==
  LET invalid == Err("InvalidMultihashError", "Supplied PeerID Multihash is invalid")
  IN
  IF isSha256Multihash(multihash)
  THEN Done(Ok(RSAPeerIdClass([multihash |-> multihash, publicKey |-> <<>>])),
            <<"peerIdFromMultihash">>)
  ELSE IF isIdentityMultihash(multihash)
  THEN LET parsed == publicKeyFromMultihash(multihash)
           calls == <<"peerIdFromMultihash", "publicKeyFromMultihash">>
       IN  IF parsed.kind = "ok" /\ parsed.value.type = "Ed25519"
           THEN Done(Ok(Ed25519PeerIdClass(
                          [multihash |-> multihash, publicKey |-> <<parsed.value>>])),
                     calls)
           ELSE IF parsed.kind = "ok" /\ parsed.value.type = "secp256k1"
           THEN Done(Ok(Secp256k1PeerIdClass(
                          [multihash |-> multihash, publicKey |-> <<parsed.value>>])),
                     calls)
           ELSE UrlFallback(multihash.digest, calls)
  ELSE Done(invalid, <<"peerIdFromMultihash">>)

\* peerIdFromMultihash building the Ed25519 and secp256k1 peer ids from the
\* multihash alone, without the parsed key
peerIdFromMultihash_KeyNotEmbedded(multihash) ==
  LET invalid == Err("InvalidMultihashError", "Supplied PeerID Multihash is invalid")
  IN
  IF isSha256Multihash(multihash)
  THEN Done(Ok(RSAPeerIdClass([multihash |-> multihash, publicKey |-> <<>>])),
            <<"peerIdFromMultihash">>)
  ELSE IF isIdentityMultihash(multihash)
  THEN LET parsed == publicKeyFromMultihash(multihash)
           calls == <<"peerIdFromMultihash", "publicKeyFromMultihash">>
       IN  IF parsed.kind = "ok"
           THEN IF parsed.value.type = "Ed25519"
                THEN Done(Ok(Ed25519PeerIdClass(
                               [multihash |-> multihash, publicKey |-> <<>>])),
                          calls)
                ELSE IF parsed.value.type = "secp256k1"
                THEN Done(Ok(Secp256k1PeerIdClass(
                               [multihash |-> multihash, publicKey |-> <<>>])),
                          calls)
                ELSE Done(invalid, calls)
           ELSE UrlFallback(multihash.digest, calls)
  ELSE Done(invalid, <<"peerIdFromMultihash">>)

\* peerIdFromMultihash with the two key variants exchanged
peerIdFromMultihash_VariantsSwapped(multihash) ==
  LET invalid == Err("InvalidMultihashError", "Supplied PeerID Multihash is invalid")
  IN
  IF isSha256Multihash(multihash)
  THEN Done(Ok(RSAPeerIdClass([multihash |-> multihash, publicKey |-> <<>>])),
            <<"peerIdFromMultihash">>)
  ELSE IF isIdentityMultihash(multihash)
  THEN LET parsed == publicKeyFromMultihash(multihash)
           calls == <<"peerIdFromMultihash", "publicKeyFromMultihash">>
       IN  IF parsed.kind = "ok"
           THEN IF parsed.value.type = "Ed25519"
                THEN Done(Ok(Secp256k1PeerIdClass(
                               [multihash |-> multihash, publicKey |-> <<parsed.value>>])),
                          calls)
                ELSE IF parsed.value.type = "secp256k1"
                THEN Done(Ok(Ed25519PeerIdClass(
                               [multihash |-> multihash, publicKey |-> <<parsed.value>>])),
                          calls)
                ELSE Done(invalid, calls)
           ELSE UrlFallback(multihash.digest, calls)
  ELSE Done(invalid, <<"peerIdFromMultihash">>)

peerIdFromMultihash(multihash) ==
  LET invalid == Err("InvalidMultihashError", "Supplied PeerID Multihash is invalid")
  IN
  IF isSha256Multihash(multihash)
  THEN Done(Ok(RSAPeerIdClass([multihash |-> multihash, publicKey |-> <<>>])),
            <<"peerIdFromMultihash">>)
  ELSE IF isIdentityMultihash(multihash)
  THEN LET parsed == publicKeyFromMultihash(multihash)
           calls == <<"peerIdFromMultihash", "publicKeyFromMultihash">>
       IN  IF parsed.kind = "ok"
           THEN IF parsed.value.type = "Ed25519"
                THEN Done(Ok(Ed25519PeerIdClass(
                               [multihash |-> multihash, publicKey |-> <<parsed.value>>])),
                          calls)
                ELSE IF parsed.value.type = "secp256k1"
                THEN Done(Ok(Secp256k1PeerIdClass(
                               [multihash |-> multihash, publicKey |-> <<parsed.value>>])),
                          calls)
                ELSE Done(invalid, calls)
           ELSE UrlFallback(multihash.digest, calls)
  ELSE Done(invalid, <<"peerIdFromMultihash">>)

\* CidRejected with the codec test applied to every version, so that a
\* version-0 CID (codec dag-pb) is turned away
CidRejected_AnyVersion(cid) ==
  \/ ~cid.present
  \/ cid.multihash = <<>>
  \/ cid.version = <<>>
  \/ /\ cid.code # LIBP2P_KEY_CODE
     /\ cid.code # TRANSPORT_IPFS_GATEWAY_HTTP_CODE

\* CidRejected without the test for a missing version
CidRejected_NoVersionTest(cid) ==
  \/ ~cid.present
  \/ cid.multihash = <<>>
  \/ /\ cid.version = <<1>>
     /\ cid.code # LIBP2P_KEY_CODE
     /\ cid.code # TRANSPORT_IPFS_GATEWAY_HTTP_CODE

\* the guard of peerIdFromCID's first statement
CidRejected(cid) ==
  \/ ~cid.present
  \/ cid.multihash = <<>>
  \/ cid.version = <<>>
  \/ /\ cid.version = <<1>>
     /\ cid.code # LIBP2P_KEY_CODE
     /\ cid.code # TRANSPORT_IPFS_GATEWAY_HTTP_CODE

\* peerIdFromCID without the branch for the gateway codec: every accepted CID
\* is resolved through its multihash
peerIdFromCID_NoCodecBranch(cid) ==
  IF CidRejected(cid)
  THEN Done(Err("InvalidCIDError", "Supplied PeerID CID is invalid"), <<"peerIdFromCID">>)
  ELSE LET r == peerIdFromMultihash(cid.multihash[1])
       IN  Done(r.out, <<"peerIdFromCID">> \o r.calls)

peerIdFromCID(cid) ==
  IF CidRejected(cid)
  THEN Done(Err("InvalidCIDError", "Supplied PeerID CID is invalid"), <<"peerIdFromCID">>)
  ELSE IF cid.code = TRANSPORT_IPFS_GATEWAY_HTTP_CODE
  THEN UrlFallback(cid.multihash[1].digest, <<"peerIdFromCID">>)
  ELSE LET r == peerIdFromMultihash(cid.multihash[1])
       IN  Done(r.out, <<"peerIdFromCID">> \o r.calls)

----------------------------------------------------------------------------
(* peerIdFromString *)

\* a decoded buffer, by what Digest.decode and CID.decode make of it:
\* each reading is absent when that decoder throws
Bufs == [multihash : Option(Multihashes), cid : Option(DecodedCIDs)]

FirstChars == {"1", "Q", "k", ""}

\* a peer id string: its first character (charAt(0), "" for the empty string)
\* and the bytes the multibase decoding applied to it yields (base58btc with
\* the 'z' prefix for '1'/'Q' strings, the caller's decoder otherwise),
\* absent when that decoding throws
Strings == [first : FirstChars, bytes : Option(Bufs)]

\* Digest.decode(buf)
DigestDecode(buf) ==
  IF buf.multihash = <<>> THEN Err("Error", "Incorrect length") ELSE Ok(buf.multihash[1])

\* CID.decode(buf)
CIDDecode(buf) ==
  IF buf.cid = <<>> THEN Err("Error", "Invalid CID") ELSE Ok(buf.cid[1])

\* lines 57-62: try { Digest.decode; peerIdFromMultihash } catch { peerIdFromCID(CID.decode) }
ResolveDecoded(buf, calls) ==
  LET decoded == DigestDecode(buf)
      viaMultihash ==
        IF decoded.kind = "ok"
        THEN LET r == peerIdFromMultihash(decoded.value)
             IN  Done(r.out, calls \o <<"Digest.decode">> \o r.calls)
        ELSE Done(decoded, calls \o <<"Digest.decode">>)
  IN  IF viaMultihash.out.kind = "ok"
      THEN viaMultihash
      ELSE LET cid == CIDDecode(buf)
               c == viaMultihash.calls \o <<"CID.decode">>
           IN  IF cid.kind = "ok"
               THEN LET r == peerIdFromCID(cid.value)
                    IN  Done(r.out, c \o r.calls)
               ELSE Done(cid, c)

\* peerIdFromString asking for the decoder before it looks at the first
\* character
peerIdFromString_DecoderFirst(str, decoder) ==
  IF decoder = <<>>
  THEN Done(Err("InvalidParametersError",
                "Please pass a multibase decoder for strings that do not start with 1 or Q"),
            <<"peerIdFromString">>)
  ELSE IF str.first = "1" \/ str.first = "Q"
  THEN IF str.bytes = <<>>
       THEN Done(Err("Error", "Non-base58btc character"),
                 <<"peerIdFromString", "base58btc.decode">>)
       ELSE LET decoded == DigestDecode(str.bytes[1])
                calls == <<"peerIdFromString", "base58btc.decode", "Digest.decode">>
            IN  IF decoded.kind = "ok"
                THEN LET r == peerIdFromMultihash(decoded.value)
                     IN  Done(r.out, calls \o r.calls)
                ELSE Done(decoded, calls)
  ELSE IF str.bytes = <<>>
  THEN Done(Err("InvalidParametersError",
                "The passed PeerID string could not be decoded using the provided multibase decoder"),
            <<"peerIdFromString", "decoder.decode">>)
  ELSE ResolveDecoded(str.bytes[1], <<"peerIdFromString", "decoder.decode">>)

\* peerIdFromString without the test for a missing decoder: the call of
\* decode on the missing decoder throws inside the first try block
peerIdFromString_NoDecoderTest(str, decoder) ==
  IF str.first = "1" \/ str.first = "Q"
  THEN IF str.bytes = <<>>
       THEN Done(Err("Error", "Non-base58btc character"),
                 <<"peerIdFromString", "base58btc.decode">>)
       ELSE LET decoded == DigestDecode(str.bytes[1])
                calls == <<"peerIdFromString", "base58btc.decode", "Digest.decode">>
            IN  IF decoded.kind = "ok"
                THEN LET r == peerIdFromMultihash(decoded.value)
                     IN  Done(r.out, calls \o r.calls)
                ELSE Done(decoded, calls)
  ELSE IF decoder = <<>> \/ str.bytes = <<>>
  THEN Done(Err("InvalidParametersError",
                "The passed PeerID string could not be decoded using the provided multibase decoder"),
            <<"peerIdFromString", "decoder.decode">>)
  ELSE ResolveDecoded(str.bytes[1], <<"peerIdFromString", "decoder.decode">>)

\* peerIdFromString without the try block around decoder.decode: the
\* decoder's own error reaches the caller
peerIdFromString_DecodeUncaught(str, decoder) ==
  IF str.first = "1" \/ str.first = "Q"
  THEN IF str.bytes = <<>>
       THEN Done(Err("Error", "Non-base58btc character"),
                 <<"peerIdFromString", "base58btc.decode">>)
       ELSE LET decoded == DigestDecode(str.bytes[1])
                calls == <<"peerIdFromString", "base58btc.decode", "Digest.decode">>
            IN  IF decoded.kind = "ok"
                THEN LET r == peerIdFromMultihash(decoded.value)
                     IN  Done(r.out, calls \o r.calls)
                ELSE Done(decoded, calls)
  ELSE IF decoder = <<>>
  THEN Done(Err("InvalidParametersError",
                "Please pass a multibase decoder for strings that do not start with 1 or Q"),
            <<"peerIdFromString">>)
  ELSE IF str.bytes = <<>>
  THEN Done(Err("Error", "Unable to decode multibase string"),
            <<"peerIdFromString", "decoder.decode">>)
  ELSE ResolveDecoded(str.bytes[1], <<"peerIdFromString", "decoder.decode">>)

peerIdFromString(str, decoder) ==
  IF str.first = "1" \/ str.first = "Q"
  THEN IF str.bytes = <<>>
       THEN Done(Err("Error", "Non-base58btc character"),
                 <<"peerIdFromString", "base58btc.decode">>)
       ELSE LET decoded == DigestDecode(str.bytes[1])
                calls == <<"peerIdFromString", "base58btc.decode", "Digest.decode">>
            IN  IF decoded.kind = "ok"
                THEN LET r == peerIdFromMultihash(decoded.value)
                     IN  Done(r.out, calls \o r.calls)
                ELSE Done(decoded, calls)
  ELSE IF decoder = <<>>
  THEN Done(Err("InvalidParametersError",
                "Please pass a multibase decoder for strings that do not start with 1 or Q"),
            <<"peerIdFromString">>)
  ELSE IF str.bytes = <<>>
  THEN Done(Err("InvalidParametersError",
                "The passed PeerID string could not be decoded using the provided multibase decoder"),
            <<"peerIdFromString", "decoder.decode">>)
  ELSE ResolveDecoded(str.bytes[1], <<"peerIdFromString", "decoder.decode">>)

----------------------------------------------------------------------------
(* peerIdFromPublicKey, peerIdFromPrivateKey *)

\* a public key object: its algorithm tag and the multihash of its CID
\* (toCID().multihash): the identity multihash of the key's own encoding for
\* Ed25519 and secp256k1, the sha2-256 fingerprint for RSA
PublicKeys ==
  {[type |-> t, multihash |-> [code |-> IDENTITY_CODE, digest |-> [key |-> t, text |-> x]]] :
      t \in {"Ed25519", "secp256k1"}, x \in Texts}
  \cup {[type |-> "RSA", multihash |-> [code |-> SHA256_CODE, digest |-> d]] : d \in Digests}
  \cup {[type |-> "ECDSA", multihash |-> [code |-> SHA256_CODE, digest |-> d]] : d \in Digests}

\* peerIdFromPublicKey building the RSA peer id from the multihash alone
peerIdFromPublicKey_HashOnlyRSA(publicKey) ==
  LET calls == <<"peerIdFromPublicKey">>
      init == [multihash |-> publicKey.multihash, publicKey |-> <<publicKey>>]
  IN  IF publicKey.type = "Ed25519"
      THEN Done(Ok(Ed25519PeerIdClass(init)), calls)
      ELSE IF publicKey.type = "secp256k1"
      THEN Done(Ok(Secp256k1PeerIdClass(init)), calls)
      ELSE IF publicKey.type = "RSA"
      THEN Done(Ok(RSAPeerIdClass([multihash |-> publicKey.multihash, publicKey |-> <<>>])),
                calls)
      ELSE Done(Err("UnsupportedKeyTypeError", "Unsupported key type"), calls)

\* peerIdFromPublicKey taking every key that is neither Ed25519 nor secp256k1
\* for an RSA key
peerIdFromPublicKey_AnyOtherIsRSA(publicKey) ==
  LET calls == <<"peerIdFromPublicKey">>
      init == [multihash |-> publicKey.multihash, publicKey |-> <<publicKey>>]
  IN  IF publicKey.type = "Ed25519"
      THEN Done(Ok(Ed25519PeerIdClass(init)), calls)
      ELSE IF publicKey.type = "secp256k1"
      THEN Done(Ok(Secp256k1PeerIdClass(init)), calls)
      ELSE Done(Ok(RSAPeerIdClass(init)), calls)

peerIdFromPublicKey(publicKey) ==
  LET calls == <<"peerIdFromPublicKey">>
      init == [multihash |-> publicKey.multihash, publicKey |-> <<publicKey>>]
  IN  IF publicKey.type = "Ed25519"
      THEN Done(Ok(Ed25519PeerIdClass(init)), calls)
      ELSE IF publicKey.type = "secp256k1"
      THEN Done(Ok(Secp256k1PeerIdClass(init)), calls)
      ELSE IF publicKey.type = "RSA"
      THEN Done(Ok(RSAPeerIdClass(init)), calls)
      ELSE Done(Err("UnsupportedKeyTypeError", "Unsupported key type"), calls)

peerIdFromPrivateKey(privateKey) ==
  LET r == peerIdFromPublicKey(privateKey.publicKey)
  IN  Done(r.out, <<"peerIdFromPrivateKey">> \o r.calls)

----------------------------------------------------------------------------
(* RSA key codec (keys/rsa/utils.ts): numbers, bytes and strings *)

MAX_RSA_KEY_SIZE == 8192

SHA2_256_CODE == 18

\* A bigint is its hexadecimal digits, most significant first, as
\* bn.toString(16) prints them: no leading zero digit, <<0>> for zero.
\* A byte array is a sequence of 0..255.  A base64url string is the sequence
\* of the 6-bit values of its characters.

RECURSIVE FirstNonZero(_, _)
FirstNonZero(h, i) ==
  IF i > Len(h) THEN i ELSE IF h[i] # 0 THEN i ELSE FirstNonZero(h, i + 1)

\* BigInt('0x' + digits) for a non-empty digit string
ParseHex(h) ==
  LET i == FirstNonZero(h, 1)
  IN  IF i > Len(h) THEN <<0>> ELSE SubSeq(h, i, Len(h))

\* the two hex digits of every byte, joined
HexOf(u8) ==
  [i \in 1..(2 * Len(u8)) |->
     IF i % 2 = 1 THEN u8[(i + 1) \div 2] \div 16 ELSE u8[i \div 2] % 16]

\* bnToBuf padding an odd number of digits with a zero behind the digits
\* and not in front
bnToBuf_PadBehind(bn) ==
  LET hex == IF Len(bn) % 2 > 0 THEN bn \o <<0>> ELSE bn
  IN  [i \in 1..(Len(hex) \div 2) |-> hex[2 * i - 1] * 16 + hex[2 * i]]

\* pad the digits to an even count and read them two by two
bnToBuf(bn) ==
  LET hex == IF Len(bn) % 2 > 0 THEN <<0>> \o bn ELSE bn
  IN  [i \in 1..(Len(hex) \div 2) |-> hex[2 * i - 1] * 16 + hex[2 * i]]

\* BigInt('0x') of the empty array is a SyntaxError
bufToBn(u8) ==
  IF Len(u8) = 0
  THEN Err("SyntaxError", "Cannot convert 0x to a BigInt")
  ELSE Ok(ParseHex(HexOf(u8)))

\* the number of bits of a bigint
BitLength(bn) ==
  IF bn = <<0>> THEN 0
  ELSE 4 * (Len(bn) - 1)
       + (IF bn[1] >= 8 THEN 4 ELSE IF bn[1] >= 4 THEN 3 ELSE IF bn[1] >= 2 THEN 2 ELSE 1)

\* uint8ArrayToString(bytes, 'base64url'): unpadded base64url
ToBase64url(u8) ==
  [k \in 1..((8 * Len(u8) + 5) \div 6) |->
     LET o == 6 * (k - 1)
         i == o \div 8 + 1
         w == u8[i] * 256 + (IF i + 1 <= Len(u8) THEN u8[i + 1] ELSE 0)
     IN  (w \div (2 ^ (10 - (o % 8)))) % 64]

\* uint8ArrayFromString(str, 'base64url')
FromBase64url(str) ==
  [k \in 1..((6 * Len(str)) \div 8) |->
     LET o == 8 * (k - 1)
         i == o \div 6 + 1
         w == str[i] * 64 + (IF i + 1 <= Len(str) THEN str[i + 1] ELSE 0)
     IN  (w \div (2 ^ (4 - (o % 6)))) % 256]

----------------------------------------------------------------------------
(* ASN.1 (asn1js) *)

\* A node is its tag, its child nodes (valueBlock.value) and its content
\* bytes (valueBlock.valueHex).  A BitString whose content is itself BER
\* carries the parsed content as its only child.
Node(tag, value, valueHex) == [tag |-> tag, value |-> value, valueHex |-> valueHex]

Sequence(value) == Node("Sequence", value, <<>>)

BitString(inner) == Node("BitString", <<inner>>, <<>>)

Null == Node("Null", <<>>, <<>>)

\* ObjectIdentifier 1.2.840.113549.1.1.1 (rsaEncryption), by its content bytes
RsaEncryptionOid == Node("ObjectIdentifier", <<>>, <<42, 134, 72, 134, 247, 13, 1, 1, 1>>)

\* ObjectIdentifier 1.2.840.10045.2.1 (id-ecPublicKey)
EcPublicKeyOid == Node("ObjectIdentifier", <<>>, <<42, 134, 72, 206, 61, 2, 1>>)

\* asn1js.Integer.fromBigInt: the bytes of the number, with a zero byte in
\* front when the first byte has its high bit set
IntegerFromBigInt(bn) ==
  LET view == bnToBuf(bn)
  IN  Node("Integer", <<>>, IF view[1] >= 128 THEN <<0>> \o view ELSE view)

\* asn1js.Integer.toBigInt of a non-negative Integer
IntegerToBigInt(node) == ParseHex(HexOf(node.valueHex))

\* node.toBER(): the encoding of a node
toBER(node) == [kind |-> "ber", node |-> node]

\* asn1js.fromBER(bytes).result: the node the bytes encode; for bytes that are
\* no BER an error block, which has no child nodes
fromBER(bytes) ==
  IF bytes.kind = "ber" THEN bytes.node ELSE Node("Error", <<>>, <<>>)

\* bytes that are not BER at all
Garbage == [kind |-> "garbage", node |-> Null]

\* values[i].toBigInt() for the 0-based index i of a JavaScript array: a
\* TypeError when the element is missing or is no Integer
BigIntAt(values, i) ==
  IF i + 1 <= Len(values) /\ values[i + 1].tag = "Integer"
  THEN Ok(IntegerToBigInt(values[i + 1]))
  ELSE Err("TypeError", "Cannot read properties of undefined")

AllOk(outs) == \A i \in 1..Len(outs) : outs[i].kind = "ok"

FirstError(outs) == outs[CHOOSE i \in 1..Len(outs) :
                           outs[i].kind = "err" /\ \A j \in 1..(i - 1) : outs[j].kind = "ok"]

----------------------------------------------------------------------------
(* JWK <-> DER *)

\* A JWK record: every member optional
Jwk(kty, alg, n, e, d, p, q, dp, dq, qi) ==
  [kty |-> kty, alg |-> alg, n |-> n, e |-> e, d |-> d, p |-> p, q |-> q,
   dp |-> dp, dq |-> dq, qi |-> qi]

Base64urlOfBigInt(bn) == ToBase64url(bnToBuf(bn))

pkcs1ToJwk(bytes) ==
  LET result == fromBER(bytes)
      values == result.value
      ints == [i \in 1..8 |-> BigIntAt(values, i)]
      str(i) == <<Base64urlOfBigInt(ints[i].value)>>
  IN  IF AllOk(ints)
      THEN Ok(Jwk(<<"RSA">>, <<"RS256">>, str(1), str(2), str(3), str(4), str(5),
                  str(6), str(7), str(8)))
      ELSE FirstError(ints)

\* result.valueBlock.value[1].valueBlock.value[0].valueBlock.value
PkixValues(result) ==
  IF Len(result.value) >= 2 /\ Len(result.value[2].value) >= 1
  THEN Ok(result.value[2].value[1].value)
  ELSE Err("TypeError", "Cannot read properties of undefined")

pkixToJwk(bytes) ==
  LET values == PkixValues(fromBER(bytes))
  IN  IF values.kind = "err" THEN values
      ELSE LET ints == [i \in 1..2 |-> BigIntAt(values.value, i - 1)]
           IN  IF AllOk(ints)
               THEN Ok(Jwk(<<"RSA">>, <<>>, <<Base64urlOfBigInt(ints[1].value)>>,
                           <<Base64urlOfBigInt(ints[2].value)>>,
                           <<>>, <<>>, <<>>, <<>>, <<>>, <<>>))
               ELSE FirstError(ints)

MissingComponents == Err("InvalidParametersError", "JWK was missing components")

\* Integer.fromBigInt(bufToBn(uint8ArrayFromString(member, 'base64url')))
IntegerOfMember(member) ==
  LET bn == bufToBn(FromBase64url(member[1]))
  IN  IF bn.kind = "ok" THEN Ok(IntegerFromBigInt(bn.value)) ELSE bn

NodesOf(outs) == [i \in 1..Len(outs) |-> outs[i].value]

\* jwkToPkcs1 without the version Integer in front
jwkToPkcs1_NoVersion(jwk) ==
  IF \/ jwk.n = <<>> \/ jwk.e = <<>> \/ jwk.d = <<>> \/ jwk.p = <<>>
     \/ jwk.q = <<>> \/ jwk.dp = <<>> \/ jwk.dq = <<>> \/ jwk.qi = <<>>
  THEN MissingComponents
  ELSE LET ints == <<IntegerOfMember(jwk.n), IntegerOfMember(jwk.e),
                     IntegerOfMember(jwk.d), IntegerOfMember(jwk.p),
                     IntegerOfMember(jwk.q), IntegerOfMember(jwk.dp),
                     IntegerOfMember(jwk.dq), IntegerOfMember(jwk.qi)>>
       IN  IF AllOk(ints)
           THEN Ok(toBER(Sequence(NodesOf(ints))))
           ELSE FirstError(ints)

jwkToPkcs1(jwk) ==
  IF \/ jwk.n = <<>> \/ jwk.e = <<>> \/ jwk.d = <<>> \/ jwk.p = <<>>
     \/ jwk.q = <<>> \/ jwk.dp = <<>> \/ jwk.dq = <<>> \/ jwk.qi = <<>>
  THEN MissingComponents
  ELSE LET ints == <<IntegerOfMember(jwk.n), IntegerOfMember(jwk.e),
                     IntegerOfMember(jwk.d), IntegerOfMember(jwk.p),
                     IntegerOfMember(jwk.q), IntegerOfMember(jwk.dp),
                     IntegerOfMember(jwk.dq), IntegerOfMember(jwk.qi)>>
       IN  IF AllOk(ints)
           THEN Ok(toBER(Sequence(<<Node("Integer", <<>>, <<0>>)>> \o NodesOf(ints))))
           ELSE FirstError(ints)

\* jwkToPkix with the key material as a nested Sequence node in place of the
\* BitString that wraps its encoding
jwkToPkix_NestedSequence(jwk) ==
  IF jwk.n = <<>> \/ jwk.e = <<>>
  THEN MissingComponents
  ELSE LET ints == <<IntegerOfMember(jwk.n), IntegerOfMember(jwk.e)>>
       IN  IF AllOk(ints)
           THEN Ok(toBER(Sequence(<<Sequence(<<RsaEncryptionOid, Null>>),
                                    Sequence(NodesOf(ints))>>)))
           ELSE FirstError(ints)

\* jwkToPkix testing only n for absence: an absent e reaches
\* uint8ArrayFromString, which throws on undefined
jwkToPkix_TestsNOnly(jwk) ==
  IF jwk.n = <<>>
  THEN MissingComponents
  ELSE IF jwk.e = <<>>
  THEN Err("TypeError", "Cannot read properties of undefined")
  ELSE LET ints == <<IntegerOfMember(jwk.n), IntegerOfMember(jwk.e)>>
       IN  IF AllOk(ints)
           THEN Ok(toBER(Sequence(<<Sequence(<<RsaEncryptionOid, Null>>),
                                    BitString(Sequence(NodesOf(ints)))>>)))
           ELSE FirstError(ints)

jwkToPkix(jwk) ==
  IF jwk.n = <<>> \/ jwk.e = <<>>
  THEN MissingComponents
  ELSE LET ints == <<IntegerOfMember(jwk.n), IntegerOfMember(jwk.e)>>
       IN  IF AllOk(ints)
           THEN Ok(toBER(Sequence(<<Sequence(<<RsaEncryptionOid, Null>>),
                                    BitString(Sequence(NodesOf(ints)))>>)))
           ELSE FirstError(ints)

----------------------------------------------------------------------------
(* RSA key objects *)

\* rsaKeySize (keys/rsa/index.ts): the size of the modulus in bits, the
\* length of the bytes of member n times eight
rsaKeySize(jwk) ==
  IF jwk.n = <<>>
  THEN Err("InvalidParametersError", "invalid key modulus")
  ELSE Ok(Len(FromBase64url(jwk.n[1])) * 8)

KeyTooLarge(name) == Err(name, "Key size is too large")

\* pb.PublicKey.encode({ Type: KeyType.RSA, Data })
PublicKeyEncode(data) == [Type |-> "RSA", Data |-> data]

\* sha256: a digest is equal to another only if the hashed bytes are
sha256(bytes) == [sha256 |-> bytes]

\* create(code, hash) of multiformats/hashes/digest
create(code, hash) == [code |-> code, digest |-> hash]

RSAPublicKeyClass(jwk, digest) == [type |-> "RSA", jwk |-> jwk, multihash |-> digest]

RSAPrivateKeyClass(jwk, publicKey) == [type |-> "RSA", jwk |-> jwk, publicKey |-> publicKey]

jwkToJWKKeyPair(key) ==
  IF key = <<>>
  THEN Err("InvalidParametersError", "Missing key parameter")
  ELSE Ok([privateKey |-> key[1],
           publicKey |-> Jwk(key[1].kty, <<>>, key[1].n, key[1].e,
                             <<>>, <<>>, <<>>, <<>>, <<>>, <<>>)])

pkixToRSAPublicKey(bytes) ==
  LET jwk == pkixToJwk(bytes)
      calls == <<"pkixToRSAPublicKey", "pkixToJwk">>
  IN  IF jwk.kind = "err" THEN Done(jwk, calls)
      ELSE LET size == rsaKeySize(jwk.value)
           IN  IF size.kind = "err" THEN Done(size, calls \o <<"rsaKeySize">>)
               ELSE IF size.value > MAX_RSA_KEY_SIZE
               THEN Done(KeyTooLarge("InvalidPublicKeyError"), calls \o <<"rsaKeySize">>)
               ELSE Done(Ok(RSAPublicKeyClass(
                              jwk.value,
                              create(SHA2_256_CODE, sha256(PublicKeyEncode(bytes))))),
                         calls \o <<"rsaKeySize", "sha256">>)

\* the part shared by jwkToRSAPrivateKey and generateRSAKeyPair: fingerprint
\* the public half of a key pair and build the key objects
Fingerprinted(keys, calls) ==
  LET pkix == jwkToPkix(keys.publicKey)
  IN  IF pkix.kind = "err" THEN Done(pkix, calls \o <<"jwkToPkix">>)
      ELSE Done(Ok(RSAPrivateKeyClass(
                     keys.privateKey,
                     RSAPublicKeyClass(
                       keys.publicKey,
                       create(SHA2_256_CODE, sha256(PublicKeyEncode(pkix.value)))))),
                calls \o <<"jwkToPkix", "sha256">>)

\* jwkToRSAPrivateKey without the size test
jwkToRSAPrivateKey_NoSizeTest(jwk) ==
  LET size == rsaKeySize(jwk)
      calls == <<"jwkToRSAPrivateKey", "rsaKeySize">>
  IN  IF size.kind = "err" THEN Done(size, calls)
      ELSE LET keys == jwkToJWKKeyPair(<<jwk>>)
           IN  IF keys.kind = "err" THEN Done(keys, calls \o <<"jwkToJWKKeyPair">>)
               ELSE Fingerprinted(keys.value, calls \o <<"jwkToJWKKeyPair">>)

\* jwkToRSAPrivateKey rejecting a key of exactly MAX_RSA_KEY_SIZE bits too
jwkToRSAPrivateKey_AtLeast(jwk) ==
  LET size == rsaKeySize(jwk)
      calls == <<"jwkToRSAPrivateKey", "rsaKeySize">>
  IN  IF size.kind = "err" THEN Done(size, calls)
      ELSE IF size.value >= MAX_RSA_KEY_SIZE
      THEN Done(KeyTooLarge("InvalidParametersError"), calls)
      ELSE LET keys == jwkToJWKKeyPair(<<jwk>>)
           IN  IF keys.kind = "err" THEN Done(keys, calls \o <<"jwkToJWKKeyPair">>)
               ELSE Fingerprinted(keys.value, calls \o <<"jwkToJWKKeyPair">>)

jwkToRSAPrivateKey(jwk) ==
  LET size == rsaKeySize(jwk)
      calls == <<"jwkToRSAPrivateKey", "rsaKeySize">>
  IN  IF size.kind = "err" THEN Done(size, calls)
      ELSE IF size.value > MAX_RSA_KEY_SIZE
      THEN Done(KeyTooLarge("InvalidParametersError"), calls)
      ELSE LET keys == jwkToJWKKeyPair(<<jwk>>)
           IN  IF keys.kind = "err" THEN Done(keys, calls \o <<"jwkToJWKKeyPair">>)
               ELSE Fingerprinted(keys.value, calls \o <<"jwkToJWKKeyPair">>)

pkcs1ToRSAPrivateKey(bytes) ==
  LET jwk == pkcs1ToJwk(bytes)
      calls == <<"pkcs1ToRSAPrivateKey", "pkcs1ToJwk">>
  IN  IF jwk.kind = "err" THEN Done(jwk, calls)
      ELSE LET r == jwkToRSAPrivateKey(jwk.value)
           IN  Done(r.out, calls \o r.calls)

\* generateRSAKey (keys/rsa/index.ts): a fresh key pair whose modulus has the
\* requested number of bits; seed stands for the randomness
generateRSAKey(bits, seed) ==
  LET n == <<ToBase64url([i \in 1..(bits \div 8) |-> IF i = 1 THEN 128 + seed ELSE seed])>>
      e == <<ToBase64url(<<1, 0, 1>>)>>
      m == <<ToBase64url(<<seed>>)>>
  IN  [privateKey |-> Jwk(<<"RSA">>, <<>>, n, e, m, m, m, m, m, m),
       publicKey |-> Jwk(<<"RSA">>, <<>>, n, e, <<>>, <<>>, <<>>, <<>>, <<>>, <<>>)]

\* generateRSAKeyPair with the size tested on the generated key
generateRSAKeyPair_TestAfter(bits, seed) ==
  LET keys == generateRSAKey(bits, seed)
      calls == <<"generateRSAKeyPair", "generateRSAKey">>
  IN  IF rsaKeySize(keys.publicKey).value > MAX_RSA_KEY_SIZE
      THEN Done(KeyTooLarge("InvalidParametersError"), calls)
      ELSE Fingerprinted(keys, calls)

generateRSAKeyPair(bits, seed) ==
  IF bits > MAX_RSA_KEY_SIZE
  THEN Done(KeyTooLarge("InvalidParametersError"), <<"generateRSAKeyPair">>)
  ELSE Fingerprinted(generateRSAKey(bits, seed), <<"generateRSAKeyPair", "generateRSAKey">>)

----------------------------------------------------------------------------
(* Inputs of the RSA key codec *)

\* how far past MAX_RSA_KEY_SIZE the sizes of the inputs go: in bytes for a
\* modulus, in bits for generateRSAKeyPair
MaxExtra == 1

\* the longest ASN.1 sequence given to pkcs1ToJwk
MaxSeqLen == 10

\* the number of outcomes of key generation told apart
NumSeeds == 2

MaxBytes == MAX_RSA_KEY_SIZE \div 8

\* a modulus of len bytes with the given first byte
ModulusBytes(len, first) == [i \in 1..len |-> IF i = 1 THEN first ELSE 7]

\* moduli of one byte and from the limit to MaxExtra bytes past it, with the
\* top bit of the first byte set or not
Moduli ==
  {ModulusBytes(len, first) :
     len \in {1} \cup (MaxBytes..(MaxBytes + MaxExtra)), first \in {1, 129}}

\* the bigint a byte array stands for
BigIntOf(u8) == ParseHex(HexOf(u8))

\* small member values: 1, 1 with a leading zero byte, 200, 65537, and the
\* empty string
SmallMembers ==
  {ToBase64url(<<1>>), ToBase64url(<<0, 1>>), ToBase64url(<<200>>),
   ToBase64url(<<1, 0, 1>>), <<>>}

\* the private members d, p, q, dp, dq, qi of the JWK inputs: all present
\* with one value, one of them missing, or all missing
PrivateMembers ==
  LET v == <<ToBase64url(<<3>>)>>
  IN  {[i \in 1..6 |-> <<x>>] : x \in SmallMembers}
      \cup {[i \in 1..6 |-> IF i = k THEN <<>> ELSE v] : k \in 1..6}
      \cup {[i \in 1..6 |-> <<>>]}

JwkWith(alg, n, e, m) == Jwk(<<"RSA">>, alg, n, e, m[1], m[2], m[3], m[4], m[5], m[6])

\* JWK records given to jwkToPkcs1, jwkToPkix and jwkToJWKKeyPair
SmallJwks ==
  {JwkWith(alg, n, e, m) :
     alg \in Option({"RS256"}), n \in Option(SmallMembers), e \in Option(SmallMembers),
     m \in PrivateMembers}

\* JWK records given to jwkToRSAPrivateKey: moduli of every size, as they
\* are and with a zero byte in front
SizedJwks ==
  {JwkWith(<<>>, n, e, m) :
     n \in Option({ToBase64url(b) : b \in Moduli \cup {<<0>> \o x : x \in Moduli}}),
     e \in Option({ToBase64url(<<1, 0, 1>>)}),
     m \in {[i \in 1..6 |-> <<ToBase64url(<<3>>)>>], [i \in 1..6 |-> <<>>]}}

\* the DER Integer of a modulus
IntegerOf(u8) == IntegerFromBigInt(BigIntOf(u8))

\* the i-th element of a PKCS#1 sequence with modulus n
Pkcs1Element(i, n) ==
  IF i = 1 THEN Node("Integer", <<>>, <<0>>)
  ELSE IF i = 2 THEN IntegerOf(n)
  ELSE Node("Integer", <<>>, <<i>>)

\* byte strings given to pkcs1ToJwk and pkcs1ToRSAPrivateKey: bytes that are
\* no BER; the encodings of sequences of 0..MaxSeqLen Integers, all of them
\* Integers or with a Null in one place; RSAPrivateKey structures with moduli
\* of every size; a lone Integer
Pkcs1Inputs ==
  {Garbage}
  \cup {toBER(Sequence([i \in 1..len |->
                          IF i = hole THEN Null ELSE Pkcs1Element(i, <<129, 7>>)])) :
          len \in 0..MaxSeqLen, hole \in 0..MaxSeqLen}
  \cup {toBER(Sequence([i \in 1..9 |-> Pkcs1Element(i, n)])) : n \in Moduli}
  \cup {toBER(IntegerOf(<<129, 7>>))}

AlgorithmIdentifiers ==
  {Sequence(<<RsaEncryptionOid, Null>>), Sequence(<<EcPublicKeyOid, Null>>), Null}

\* the content of the BIT STRING: a sequence of 0..3 Integers, or of a Null
\* and an Integer, or a lone Integer
KeyBits ==
  {Sequence([i \in 1..len |-> IF i = 1 THEN IntegerOf(n) ELSE Node("Integer", <<>>, <<1, 0, 1>>)]) :
     len \in 0..3, n \in Moduli}
  \cup {Sequence(<<Null, IntegerOf(n)>>) : n \in Moduli}
  \cup {IntegerOf(n) : n \in Moduli}

\* byte strings given to pkixToJwk and pkixToRSAPublicKey: bytes that are no
\* BER, SubjectPublicKeyInfo structures, and structures that lack the
\* BIT STRING, hold an Integer or an unparsed BIT STRING in its place, or hold
\* a third element
PkixInputs ==
  {Garbage}
  \cup {toBER(Sequence(<<alg, BitString(bits)>>)) : alg \in AlgorithmIdentifiers, bits \in KeyBits}
  \cup {toBER(Sequence(<<alg, BitString(bits), Null>>)) :
          alg \in {Sequence(<<RsaEncryptionOid, Null>>)}, bits \in KeyBits}
  \cup {toBER(Sequence(<<alg>>)) : alg \in AlgorithmIdentifiers}
  \cup {toBER(Sequence(<<Sequence(<<RsaEncryptionOid, Null>>), second>>)) :
          second \in {IntegerOf(<<1>>), Node("BitString", <<>>, <<1, 2, 3>>)}}

\* the most hex digits of the big integers given to bnToBuf
MaxHexDigits == 3

\* the most bytes of the arrays given to bufToBn
MaxBufLen == 3

\* big integers given to bnToBuf: zero and every number of up to MaxHexDigits
\* hex digits
BigInts ==
  {<<0>>} \cup {h \in UNION {[1..k -> 0..15] : k \in 1..MaxHexDigits} : h[1] # 0}

\* byte arrays given to bufToBn: the empty array and arrays of bytes with
\* one and two hex digits, with the top bit set or not
ByteArrays == UNION {[1..k -> {0, 1, 15, 16, 127, 128, 255}] : k \in 0..MaxBufLen}

\* key sizes asked of generateRSAKeyPair
KeySizes == {16, 24} \cup ((MAX_RSA_KEY_SIZE - 8)..(MAX_RSA_KEY_SIZE + MaxExtra))

----------------------------------------------------------------------------
(* WebRTCDirectTransport: dial and _connect *)

\* options.signal: not given, given and not aborted, given and aborted
Signals == {"none", "live", "aborted"}

\* the peer id strings a dialled multiaddr carries: base58btc or other text,
\* decodable or not, whose bytes read as a multihash or as nothing
DialPeerIds ==
  {s \in Strings : s.bytes = <<>> \/ s.bytes[1].cid = <<>>}

\* a multiaddr, by what _connect reads of it: getPeerId() (absent for null)
\* and whether sdp.decodeCerthash(sdp.certhash(ma)) returns or throws
Multiaddrs == [peerId : Option(DialPeerIds), certhash : BOOLEAN]

\* the outcome of a dial that is suspended at an await
Pending == [kind |-> "pending"]

\* what the connect handshake may reject with; the timeout only when the
\* handshake runs under AbortSignal.timeout(HANDSHAKE_TIMEOUT_MS)
HandshakeErrors(s) ==
  {Err("Error", "handshake failed")}
    \cup (IF s = "none" THEN {Err("TimeoutError", "The operation timed out")} ELSE {})

AbortError == Err("AbortError", "This operation was aborted")

\* lines 124-134: _connect up to its first await
_connect(ma) ==
  IF ma.peerId = <<>>
  THEN Done(Err("inappropriateMultiaddr", "we need to have the remote's PeerId"),
            <<"_connect", "getPeerId">>)
  ELSE LET r == peerIdFromString(ma.peerId[1], <<>>)
           calls == <<"_connect", "getPeerId">> \o r.calls
       IN  IF r.out.kind = "err"
           THEN Done(r.out, calls)
           ELSE IF ~ma.certhash
           THEN Done(Err("Error", "certhash not found"), calls \o <<"certhash">>)
           ELSE Done(Pending,
                     calls \o <<"certhash", "decodeCerthash", "genUfrag",
                                "createDialerRTCPeerConnection">>)

\* the same function without its abort test
dial_NoAbortTest(ma, s) ==
  LET r == _connect(ma)
  IN  Done(r.out, <<"dial">> \o r.calls)

\* lines 90-92: dial up to its first await
dial(ma, s) ==
  IF s = "aborted"
  THEN Done(AbortError, <<"dial", "throwIfAborted">>)
  ELSE LET r == _connect(ma)
       IN  Done(r.out,
                (IF s = "none" THEN <<"dial">> ELSE <<"dial", "throwIfAborted">>)
                  \o r.calls)

\* the same handler rethrowing without closing
catch_NoClose(err, calls, conn) ==
  [out |-> err, calls |-> calls, peerConnection |-> conn]

\* lines 151-154: catch (err) { peerConnection.close(); throw err }
catch(err, calls, conn) ==
  [out |-> err, calls |-> calls \o <<"close">>, peerConnection |-> "closed"]

----------------------------------------------------------------------------
(* Operations: one call of an exported function, from the idle state *)

Idle == op = "none"

CallPeerIdFromMultihash ==
  /\ Idle
  /\ UNCHANGED dvars
  /\ \E multihash \in Multihashes :
       LET r == peerIdFromMultihash(multihash)
       IN  /\ op' = "peerIdFromMultihash"
           /\ arg' = [multihash |-> multihash]
           /\ res' = r.out
           /\ trace' = r.calls

CallPeerIdFromCID ==
  /\ Idle
  /\ UNCHANGED dvars
  /\ \E cid \in CIDs :
       LET r == peerIdFromCID(cid)
       IN  /\ op' = "peerIdFromCID"
           /\ arg' = [cid |-> cid]
           /\ res' = r.out
           /\ trace' = r.calls

CallPeerIdFromString ==
  /\ Idle
  /\ UNCHANGED dvars
  /\ \E str \in Strings, decoder \in Option({"decoder"}) :
       LET r == peerIdFromString(str, decoder)
       IN  /\ op' = "peerIdFromString"
           /\ arg' = [str |-> str, decoder |-> decoder]
           /\ res' = r.out
           /\ trace' = r.calls

CallPeerIdFromPublicKey ==
  /\ Idle
  /\ UNCHANGED dvars
  /\ \E publicKey \in PublicKeys :
       LET r == peerIdFromPublicKey(publicKey)
       IN  /\ op' = "peerIdFromPublicKey"
           /\ arg' = [publicKey |-> publicKey]
           /\ res' = r.out
           /\ trace' = r.calls

CallPeerIdFromPrivateKey ==
  /\ Idle
  /\ UNCHANGED dvars
  /\ \E publicKey \in PublicKeys :
       LET r == peerIdFromPrivateKey([publicKey |-> publicKey])
       IN  /\ op' = "peerIdFromPrivateKey"
           /\ arg' = [privateKey |-> [publicKey |-> publicKey]]
           /\ res' = r.out
           /\ trace' = r.calls

CallPkcs1ToJwk ==
  /\ Idle
  /\ UNCHANGED dvars
  /\ \E bytes \in Pkcs1Inputs :
       /\ op' = "pkcs1ToJwk"
       /\ arg' = [bytes |-> bytes]
       /\ res' = pkcs1ToJwk(bytes)
       /\ trace' = <<"pkcs1ToJwk">>

CallJwkToPkcs1 ==
  /\ Idle
  /\ UNCHANGED dvars
  /\ \E jwk \in SmallJwks :
       /\ op' = "jwkToPkcs1"
       /\ arg' = [jwk |-> jwk]
       /\ res' = jwkToPkcs1(jwk)
       /\ trace' = <<"jwkToPkcs1">>

CallPkixToJwk ==
  /\ Idle
  /\ UNCHANGED dvars
  /\ \E bytes \in PkixInputs :
       /\ op' = "pkixToJwk"
       /\ arg' = [bytes |-> bytes]
       /\ res' = pkixToJwk(bytes)
       /\ trace' = <<"pkixToJwk">>

CallJwkToPkix ==
  /\ Idle
  /\ UNCHANGED dvars
  /\ \E jwk \in SmallJwks :
       /\ op' = "jwkToPkix"
       /\ arg' = [jwk |-> jwk]
       /\ res' = jwkToPkix(jwk)
       /\ trace' = <<"jwkToPkix">>

CallJwkToJWKKeyPair ==
  /\ Idle
  /\ UNCHANGED dvars
  /\ \E key \in Option(SmallJwks) :
       /\ op' = "jwkToJWKKeyPair"
       /\ arg' = [key |-> key]
       /\ res' = jwkToJWKKeyPair(key)
       /\ trace' = <<"jwkToJWKKeyPair">>

CallPkcs1ToRSAPrivateKey ==
  /\ Idle
  /\ UNCHANGED dvars
  /\ \E bytes \in Pkcs1Inputs :
       LET r == pkcs1ToRSAPrivateKey(bytes)
       IN  /\ op' = "pkcs1ToRSAPrivateKey"
           /\ arg' = [bytes |-> bytes]
           /\ res' = r.out
           /\ trace' = r.calls

CallPkixToRSAPublicKey ==
  /\ Idle
  /\ UNCHANGED dvars
  /\ \E bytes \in PkixInputs :
       LET r == pkixToRSAPublicKey(bytes)
       IN  /\ op' = "pkixToRSAPublicKey"
           /\ arg' = [bytes |-> bytes]
           /\ res' = r.out
           /\ trace' = r.calls

CallJwkToRSAPrivateKey ==
  /\ Idle
  /\ UNCHANGED dvars
  /\ \E jwk \in SizedJwks :
       LET r == jwkToRSAPrivateKey(jwk)
       IN  /\ op' = "jwkToRSAPrivateKey"
           /\ arg' = [jwk |-> jwk]
           /\ res' = r.out
           /\ trace' = r.calls

CallGenerateRSAKeyPair ==
  /\ Idle
  /\ UNCHANGED dvars
  /\ \E bits \in KeySizes, seed \in 1..NumSeeds :
       LET r == generateRSAKeyPair(bits, seed)
       IN  /\ op' = "generateRSAKeyPair"
           /\ arg' = [bits |-> bits, seed |-> seed]
           /\ res' = r.out
           /\ trace' = r.calls

CallBnToBuf ==
  /\ Idle
  /\ UNCHANGED dvars
  /\ \E bn \in BigInts :
       /\ op' = "bnToBuf"
       /\ arg' = [bn |-> bn]
       /\ res' = Ok(bnToBuf(bn))
       /\ trace' = <<"bnToBuf">>

CallBufToBn ==
  /\ Idle
  /\ UNCHANGED dvars
  /\ \E u8 \in ByteArrays :
       /\ op' = "bufToBn"
       /\ arg' = [u8 |-> u8]
       /\ res' = bufToBn(u8)
       /\ trace' = <<"bufToBn">>

\* dial(ma, options), run to its first await or to its synchronous throw
Dial ==
  /\ Idle
  /\ pc = "idle"
  /\ \E ma \in Multiaddrs, s \in Signals :
       LET r == dial(ma, s)
       IN  /\ op' = "dial"
           /\ arg' = [ma |-> ma, signal |-> s]
           /\ res' = r.out
           /\ trace' = r.calls
           /\ pc' = IF r.out.kind = "pending" THEN "creating" ELSE "idle"
           /\ signal' = s
           /\ peerConnection' = "none"

\* the caller aborts options.signal while the dial is suspended
Abort ==
  /\ pc \in {"creating", "connecting"}
  /\ signal = "live"
  /\ signal' = "aborted"
  /\ UNCHANGED <<op, arg, res, trace, pc, peerConnection>>

\* line 134 resumes: the connection exists; lines 137-150 call connect and
\* raceSignal and suspend again
CreateResolves ==
  /\ pc = "creating"
  /\ peerConnection' = "open"
  /\ trace' = trace \o <<"connect", "raceSignal">>
  /\ pc' = "connecting"
  /\ UNCHANGED <<op, arg, res, signal>>

\* line 134 rejects: outside the try block, the error leaves _connect and dial
CreateRejects ==
  /\ pc = "creating"
  /\ res' = Err("Error", "createDialerRTCPeerConnection rejected")
  /\ pc' = "idle"
  /\ UNCHANGED <<op, arg, trace, signal, peerConnection>>

\* the handshake completes before the signal aborts: lines 137, 92-94
ConnectResolves ==
  /\ pc = "connecting"
  /\ signal # "aborted"
  /\ res' = Ok([remotePeer |-> peerIdFromString(arg.ma.peerId[1], <<>>).out.value])
  /\ pc' = "idle"
  /\ UNCHANGED <<op, arg, trace, signal, peerConnection>>

\* the handshake rejects: lines 151-154
ConnectRejects ==
  /\ pc = "connecting"
  /\ \E err \in HandshakeErrors(arg.signal) :
       LET c == catch(err, trace, peerConnection)
       IN  /\ res' = c.out
           /\ trace' = c.calls
           /\ peerConnection' = c.peerConnection
           /\ pc' = "idle"
  /\ UNCHANGED <<op, arg, signal>>

\* raceSignal rejects on the aborted signal: lines 151-154
SignalRejects ==
  /\ pc = "connecting"
  /\ signal = "aborted"
  /\ LET c == catch(AbortError, trace, peerConnection)
     IN  /\ res' = c.out
         /\ trace' = c.calls
         /\ peerConnection' = c.peerConnection
         /\ pc' = "idle"
  /\ UNCHANGED <<op, arg, signal>>

\* the call has returned or thrown; the caller may call again
Return ==
  /\ ~Idle
  /\ pc = "idle"
  /\ op' = "none"
  /\ arg' = [none |-> TRUE]
  /\ res' = Ok([none |-> TRUE])
  /\ trace' = <<>>
  /\ pc' = "idle"
  /\ signal' = "none"
  /\ peerConnection' = "none"

Init ==
  /\ op = "none"
  /\ arg = [none |-> TRUE]
  /\ res = Ok([none |-> TRUE])
  /\ trace = <<>>
  /\ pc = "idle"
  /\ signal = "none"
  /\ peerConnection = "none"

Next ==
  \/ CallPeerIdFromMultihash
  \/ CallPeerIdFromCID
  \/ CallPeerIdFromString
  \/ CallPeerIdFromPublicKey
  \/ CallPeerIdFromPrivateKey
  \/ CallPkcs1ToJwk
  \/ CallJwkToPkcs1
  \/ CallPkixToJwk
  \/ CallJwkToPkix
  \/ CallJwkToJWKKeyPair
  \/ CallPkcs1ToRSAPrivateKey
  \/ CallPkixToRSAPublicKey
  \/ CallJwkToRSAPrivateKey
  \/ CallGenerateRSAKeyPair
  \/ CallBnToBuf
  \/ CallBufToBn
  \/ Dial
  \/ Abort
  \/ CreateResolves
  \/ CreateRejects
  \/ ConnectResolves
  \/ ConnectRejects
  \/ SignalRejects
  \/ Return

Spec == Init /\ [][Next]_vars

----------------------------------------------------------------------------
(* Properties *)

IsError(r, name) == r.kind = "err" /\ r.name = name

Called(f) == \E i \in 1..Len(trace) : trace[i] = f

NeitherKeyNorUrl(multihash) ==
  /\ multihash.code = IDENTITY_CODE
  /\ multihash.digest.key = "none"
  /\ multihash.digest.text \notin {"https://example.com", "https://example.com/"}

\* C2: peerIdFromMultihash, and peerIdFromCID with version 1 and codec 0x72,
\* given an identity multihash whose digest is neither a key encoding nor a
\* URL string, fail with the invalid-multihash error and no other error.
C2_NeitherKeyNorUrlIsInvalidMultihash ==
  /\ (op = "peerIdFromMultihash" /\ NeitherKeyNorUrl(arg.multihash))
       => IsError(res, "InvalidMultihashError")
  /\ (op = "peerIdFromCID" /\ arg.cid.present /\ arg.cid.version = <<1>>
        /\ arg.cid.code = LIBP2P_KEY_CODE /\ arg.cid.multihash # <<>>
        /\ NeitherKeyNorUrl(arg.cid.multihash[1]))
       => IsError(res, "InvalidMultihashError")

\* the decoder path of peerIdFromString was taken and the decoder succeeded
OnDecoderPath ==
  /\ op = "peerIdFromString"
  /\ arg.str.first \notin {"1", "Q"}
  /\ arg.decoder # <<>>
  /\ arg.str.bytes # <<>>

\* C3: on the decoder path, whenever the decoded bytes parse as a multihash,
\* peerIdFromString ends exactly as peerIdFromMultihash does on that multihash
\* (same identity or same error) and neither CID.decode nor peerIdFromCID runs.
C3_CidOnlyWhenMultihashParseFails ==
  (OnDecoderPath /\ arg.str.bytes[1].multihash # <<>>)
    => /\ res = peerIdFromMultihash(arg.str.bytes[1].multihash[1]).out
       /\ ~Called("CID.decode")
       /\ ~Called("peerIdFromCID")

\* C4 as stated: for an RSA public key, peerIdFromPublicKey returns an
\* RSAPeerId with no embedded public key, only the sha2-256 multihash.
C4_RSAPeerIdHasNoKey ==
  (op = "peerIdFromPublicKey" /\ arg.publicKey.type = "RSA")
    => /\ res.kind = "ok"
       /\ res.value.type = "RSA"
       /\ res.value.publicKey = <<>>

\* C4 amended: for an RSA public key pk, peerIdFromPublicKey returns an
\* RSAPeerId holding the sha2-256 multihash of pk's CID and pk itself as its
\* embedded public key.
C4_RSAPeerIdEmbedsKey ==
  (op = "peerIdFromPublicKey" /\ arg.publicKey.type = "RSA")
    => /\ res.kind = "ok"
       /\ res.value.type = "RSA"
       /\ res.value.multihash = arg.publicKey.multihash
       /\ res.value.multihash.code = SHA256_CODE
       /\ res.value.publicKey = <<arg.publicKey>>

C4_Witness ==
  /\ op = "peerIdFromPublicKey"
  /\ arg.publicKey.type = "RSA"
  /\ res.kind = "ok"
  /\ res.value.publicKey # <<>>

C9_InvalidCidRejected ==
  (op = "peerIdFromCID"
     /\ \/ ~arg.cid.present
        \/ arg.cid.multihash = <<>>
        \/ arg.cid.version = <<>>
        \/ (arg.cid.version = <<1>> /\ arg.cid.code \notin {114, 2336}))
    => /\ IsError(res, "InvalidCIDError")
       /\ trace = <<"peerIdFromCID">>

C9_Witness ==
  /\ op = "peerIdFromCID"
  /\ arg.cid.present
  /\ arg.cid.multihash # <<>>
  /\ arg.cid.version = <<1>>
  /\ arg.cid.code = 85
  /\ IsError(res, "InvalidCIDError")

\* the modulus of the key a call of an RSA entry point is given, if it has one
InputModulus ==
  IF op = "jwkToRSAPrivateKey"
  THEN IF arg.jwk.n # <<>> /\ Len(FromBase64url(arg.jwk.n[1])) > 0
       THEN <<BigIntOf(FromBase64url(arg.jwk.n[1]))>> ELSE <<>>
  ELSE IF op = "pkcs1ToRSAPrivateKey"
  THEN LET values == fromBER(arg.bytes).value
       IN  IF pkcs1ToJwk(arg.bytes).kind = "ok" THEN <<IntegerToBigInt(values[2])>> ELSE <<>>
  ELSE IF op = "pkixToRSAPublicKey"
  THEN IF pkixToJwk(arg.bytes).kind = "ok"
       THEN <<IntegerToBigInt(PkixValues(fromBER(arg.bytes)).value[1])>> ELSE <<>>
  ELSE <<>>

\* a DER or JWK entry point was given a key whose modulus has more than
\* 8192 bits
OversizedKeyGiven == InputModulus # <<>> /\ BitLength(InputModulus[1]) > 8192

\* C5: pkixToRSAPublicKey, jwkToRSAPrivateKey and pkcs1ToRSAPrivateKey reject
\* a key whose modulus exceeds MAX_RSA_KEY_SIZE bits: no key object is
\* returned, and neither the SHA-256 fingerprint nor jwkToPkix has run.
C5_OversizedRejectedBeforeFingerprint ==
  OversizedKeyGiven
    => /\ res.kind = "err"
       /\ ~Called("sha256")
       /\ ~Called("jwkToPkix")

C5_Witness ==
  /\ op = "pkcs1ToRSAPrivateKey"
  /\ OversizedKeyGiven
  /\ BitLength(InputModulus[1]) = 8193
  /\ res.kind = "err"
  /\ res.message = "Key size is too large"
  /\ trace = <<"pkcs1ToRSAPrivateKey", "pkcs1ToJwk", "jwkToRSAPrivateKey", "rsaKeySize">>

\* C6: generateRSAKeyPair(bits) with bits > 8192 fails with the key size
\* rejection and generateRSAKey is not invoked.
C6_OversizedNeverGenerated ==
  (op = "generateRSAKeyPair" /\ arg.bits > 8192)
    => /\ res.kind = "err"
       /\ res.message = "Key size is too large"
       /\ ~Called("generateRSAKey")

C6_Witness ==
  /\ op = "generateRSAKeyPair"
  /\ arg.bits = 8193
  /\ res.kind = "err"
  /\ trace = <<"generateRSAKeyPair">>

\* an oversized PKIX public key
OversizedPkix ==
  toBER(Sequence(<<Sequence(<<RsaEncryptionOid, Null>>),
                   BitString(Sequence(<<IntegerOf(ModulusBytes(MaxBytes + 1, 1)),
                                        IntegerOf(<<1, 0, 1>>)>>))>>))

\* C7: an oversized RSA key is reported with one and the same error kind at
\* pkixToRSAPublicKey, jwkToRSAPrivateKey, pkcs1ToRSAPrivateKey and
\* generateRSAKeyPair, and that kind is not the parameter error raised for
\* missing JWK components or a missing key.
C7_OneKeySizeErrorKind ==
  (OversizedKeyGiven \/ (op = "generateRSAKeyPair" /\ arg.bits > 8192))
    => /\ res.kind = "err"
       /\ res.name = pkixToRSAPublicKey(OversizedPkix).out.name
       /\ res.name # jwkToPkcs1(Jwk(<<>>, <<>>, <<>>, <<>>, <<>>, <<>>, <<>>, <<>>, <<>>, <<>>)).name
       /\ res.name # jwkToJWKKeyPair(<<>>).name

\* the bytes are the DER of a Sequence of nine Integers
IsRSAPrivateKeyDer(bytes) ==
  /\ bytes.kind = "ber"
  /\ bytes.node.tag = "Sequence"
  /\ Len(bytes.node.value) = 9
  /\ \A i \in 1..9 : bytes.node.value[i].tag = "Integer"

\* the bytes are the DER of a SubjectPublicKeyInfo (an AlgorithmIdentifier
\* and a BIT STRING) that wraps a Sequence of two Integers
IsSubjectPublicKeyInfoDer(bytes) ==
  /\ bytes.kind = "ber"
  /\ bytes.node.tag = "Sequence"
  /\ Len(bytes.node.value) = 2
  /\ bytes.node.value[1].tag = "Sequence"
  /\ bytes.node.value[2].tag = "BitString"
  /\ Len(bytes.node.value[2].value) = 1
  /\ LET key == bytes.node.value[2].value[1]
     IN  /\ key.tag = "Sequence"
         /\ Len(key.value) = 2
         /\ \A i \in 1..2 : key.value[i].tag = "Integer"

\* C10: pkcs1ToJwk and pkixToJwk fail on malformed input (bytes that are no
\* well-formed DER, DER that is not a Sequence of nine Integers, DER that is
\* not a SubjectPublicKeyInfo wrapping a Sequence of two Integers); they
\* never return a JWK record for it.
C10_MalformedDerFails ==
  /\ (op = "pkcs1ToJwk" /\ ~IsRSAPrivateKeyDer(arg.bytes)) => res.kind = "err"
  /\ (op = "pkixToJwk" /\ ~IsSubjectPublicKeyInfoDer(arg.bytes)) => res.kind = "err"

----------------------------------------------------------------------------
(* Round trips through DER *)

\* a member of a JWK holds a big integer as the unpadded base64url string of
\* its bytes, in the minimum number of bytes
MinimalMember(m) ==
  /\ m # <<>>
  /\ LET u8 == FromBase64url(m[1])
     IN  /\ Len(u8) >= 1
         /\ Len(u8) = 1 \/ u8[1] # 0
         /\ ToBase64url(u8) = m[1]

\* a public record {kty: "RSA", n, e}
ValidPublicJwk(k) ==
  /\ k.kty = <<"RSA">> /\ k.alg = <<>>
  /\ MinimalMember(k.n) /\ MinimalMember(k.e)
  /\ k.d = <<>> /\ k.p = <<>> /\ k.q = <<>> /\ k.dp = <<>> /\ k.dq = <<>> /\ k.qi = <<>>

\* a private record: the public members and d, p, q, dp, dq, qi
ValidPrivateJwk(k) ==
  /\ k.kty = <<"RSA">>
  /\ MinimalMember(k.n) /\ MinimalMember(k.e)
  /\ MinimalMember(k.d) /\ MinimalMember(k.p) /\ MinimalMember(k.q)
  /\ MinimalMember(k.dp) /\ MinimalMember(k.dq) /\ MinimalMember(k.qi)

\* C11: for every valid RSA JWK private record k, jwkToPkcs1(k) succeeds and
\* pkcs1ToJwk of the DER it returns is a record equal to k: no member added,
\* dropped or encoded differently.
C11_Pkcs1RoundTrip ==
  (op = "jwkToPkcs1" /\ ValidPrivateJwk(arg.jwk))
    => /\ res.kind = "ok"
       /\ pkcs1ToJwk(res.value) = Ok(arg.jwk)

\* C12: for every valid RSA JWK public record k, jwkToPkix(k) succeeds and
\* pkixToJwk finds the integers n and e in the DER it returns and gives back a
\* record equal to k.
C12_PkixRoundTrip ==
  (op = "jwkToPkix" /\ ValidPublicJwk(arg.jwk))
    => /\ res.kind = "ok"
       /\ pkixToJwk(res.value) = Ok(arg.jwk)

\* a public record whose modulus 200 has its top bit set (a zero byte leads
\* its DER Integer) went through jwkToPkix and pkixToJwk gives it back
C12_Witness ==
  /\ op = "jwkToPkix"
  /\ ValidPublicJwk(arg.jwk)
  /\ arg.jwk.n = <<ToBase64url(<<200>>)>>
  /\ arg.jwk.e = <<ToBase64url(<<1, 0, 1>>)>>
  /\ res.kind = "ok"
  /\ res.value.node.value[2].value[1].value[1].valueHex = <<0, 200>>
  /\ pkixToJwk(res.value) = Ok(arg.jwk)

----------------------------------------------------------------------------
(* Fingerprints *)

RSAEntryPoints ==
  {"pkixToRSAPublicKey", "jwkToRSAPrivateKey", "pkcs1ToRSAPrivateKey", "generateRSAKeyPair"}

\* the public key object of the key an entry point returned
ReturnedPublicKey ==
  IF op = "pkixToRSAPublicKey" THEN res.value ELSE res.value.publicKey

\* C13: every RSA key object returned by pkixToRSAPublicKey,
\* jwkToRSAPrivateKey, pkcs1ToRSAPrivateKey or generateRSAKeyPair carries a
\* multihash with code 0x12 whose digest is the SHA-2-256 of the wrapper
\* record {type: RSA, data: the PKIX DER of the public key}, by the same rule
\* at all four entry points.
C13_FingerprintOfPkixDer ==
  (op \in RSAEntryPoints /\ res.kind = "ok")
    => LET der == jwkToPkix(ReturnedPublicKey.jwk)
       IN  /\ der.kind = "ok"
           /\ ReturnedPublicKey.multihash.code = 18
           /\ ReturnedPublicKey.multihash.digest = sha256(PublicKeyEncode(der.value))

----------------------------------------------------------------------------
(* Resolution of multihashes *)

\* C14: for every Ed25519 or secp256k1 public key pk,
\* peerIdFromMultihash(peerIdFromPublicKey(pk).multihash) equals
\* peerIdFromPublicKey(pk): the same variant, multihash and embedded key.
C14_MultihashRoundTrip ==
  (op = "peerIdFromPublicKey" /\ arg.publicKey.type \in {"Ed25519", "secp256k1"})
    => /\ res.kind = "ok"
       /\ peerIdFromMultihash(res.value.multihash).out = res

\* a secp256k1 key was turned into a peer id, and its multihash resolves to a
\* secp256k1 peer id that embeds the same key
C14_Witness ==
  /\ op = "peerIdFromPublicKey"
  /\ arg.publicKey.type = "secp256k1"
  /\ res.kind = "ok"
  /\ res.value.type = "secp256k1"
  /\ LET back == peerIdFromMultihash(res.value.multihash).out
     IN  /\ back.kind = "ok"
         /\ back.value.type = "secp256k1"
         /\ back.value.publicKey = <<arg.publicKey>>

\* C15: peerIdFromMultihash on a multihash with code 0x12 returns an RSAPeerId
\* that holds exactly that multihash and no public key, whatever the digest;
\* neither the key parser nor the URL constructor is called.
C15_Sha256IsHashOnlyRSA ==
  (op = "peerIdFromMultihash" /\ arg.multihash.code = 18)
    => /\ res.kind = "ok"
       /\ res.value.type = "RSA"
       /\ res.value.multihash = arg.multihash
       /\ res.value.publicKey = <<>>
       /\ res.value.url = <<>>
       /\ ~Called("publicKeyFromMultihash")
       /\ ~Called("URL")

\* a sha2-256 multihash whose digest would parse as an Ed25519 key and reads
\* as a URL was resolved to an RSA peer id
C15_Witness ==
  /\ op = "peerIdFromMultihash"
  /\ arg.multihash.code = 18
  /\ arg.multihash.digest = [key |-> "Ed25519", text |-> "https://example.com/"]
  /\ res.kind = "ok"
  /\ res.value.type = "RSA"
  /\ trace = <<"peerIdFromMultihash">>

\* C16: peerIdFromMultihash on an identity multihash whose digest parses as
\* a public key returns an Ed25519PeerId for an Ed25519 key and a
\* Secp256k1PeerId for a secp256k1 key, each holding the input multihash and
\* the parsed key.
C16_KeyVariantOfParsedKey ==
  (/\ op = "peerIdFromMultihash"
   /\ arg.multihash.code = 0
   /\ arg.multihash.digest.key \in {"Ed25519", "secp256k1"})
    => /\ res.kind = "ok"
       /\ res.value.type = arg.multihash.digest.key
       /\ res.value.multihash = arg.multihash
       /\ res.value.publicKey = <<publicKeyFromMultihash(arg.multihash).value>>
       /\ res.value.url = <<>>

\* an identity multihash whose digest parses as an Ed25519 key was resolved to
\* an Ed25519 peer id that embeds the parsed key
C16_Witness ==
  /\ op = "peerIdFromMultihash"
  /\ arg.multihash.code = 0
  /\ arg.multihash.digest.key = "Ed25519"
  /\ res.kind = "ok"
  /\ res.value.type = "Ed25519"
  /\ res.value.publicKey # <<>>
  /\ res.value.publicKey[1].type = "Ed25519"
  /\ Called("publicKeyFromMultihash")

\* C17: peerIdFromMultihash on a multihash whose code is neither 0x00 nor
\* 0x12 fails with the invalid-multihash error and returns no identity.
C17_OtherCodeIsInvalidMultihash ==
  (op = "peerIdFromMultihash" /\ arg.multihash.code \notin {0, 18})
    => IsError(res, "InvalidMultihashError")

\* a sha2-512 multihash whose digest would parse as a secp256k1 key was
\* turned away
C17_Witness ==
  /\ op = "peerIdFromMultihash"
  /\ arg.multihash.code = 19
  /\ arg.multihash.digest.key = "secp256k1"
  /\ IsError(res, "InvalidMultihashError")
  /\ trace = <<"peerIdFromMultihash">>

----------------------------------------------------------------------------
(* Resolution of CIDs and strings *)

\* a version-1 CID with the codec 0x0920 and a multihash
GatewayCid ==
  /\ op = "peerIdFromCID"
  /\ arg.cid.present
  /\ arg.cid.version = <<1>>
  /\ arg.cid.code = 2336
  /\ arg.cid.multihash # <<>>

LegacyString == op = "peerIdFromString" /\ arg.str.first \in {"1", "Q"}

\* C19: peerIdFromString on a string that starts with '1' or 'Q' decodes it
\* as a base58btc multihash and returns the result of peerIdFromMultihash on
\* it, with or without a decoder, which is never consulted; a 'Q' string that
\* decodes to a sha2-256 multihash yields an RSAPeerId with exactly that
\* multihash and no public key.
C19_LegacyStringViaMultihash ==
  LegacyString
    => /\ Called("base58btc.decode")
       /\ ~Called("decoder.decode")
       /\ ~Called("CID.decode")
       /\ ~Called("peerIdFromCID")
       /\ (arg.str.bytes # <<>> /\ arg.str.bytes[1].multihash # <<>>)
            => LET multihash == arg.str.bytes[1].multihash[1]
               IN  /\ res = peerIdFromMultihash(multihash).out
                   /\ Called("peerIdFromMultihash")
                   /\ (arg.str.first = "Q" /\ multihash.code = 18)
                        => /\ res.kind = "ok"
                           /\ res.value.type = "RSA"
                           /\ res.value.multihash = multihash
                           /\ res.value.publicKey = <<>>

\* a 'Q' string that decodes to a sha2-256 multihash (bytes that also read as
\* a CID) was resolved, with no decoder given, to an RSA peer id
C19_Witness ==
  /\ LegacyString
  /\ arg.str.first = "Q"
  /\ arg.decoder = <<>>
  /\ arg.str.bytes # <<>>
  /\ arg.str.bytes[1].multihash # <<>>
  /\ arg.str.bytes[1].multihash[1].code = 18
  /\ arg.str.bytes[1].cid # <<>>
  /\ res.kind = "ok"
  /\ res.value.type = "RSA"
  /\ res.value.publicKey = <<>>

\* C20: peerIdFromString on a string that does not start with '1' or 'Q'
\* (the empty string too), with no decoder given, fails with a parameter
\* error before any decoding of the string is attempted.
C20_NoDecoderIsParameterError ==
  (op = "peerIdFromString" /\ arg.str.first \notin {"1", "Q"} /\ arg.decoder = <<>>)
    => /\ IsError(res, "InvalidParametersError")
       /\ trace = <<"peerIdFromString">>

\* the empty string, which a decoder would have decoded to a multihash, was
\* turned away for lack of a decoder
C20_Witness ==
  /\ op = "peerIdFromString"
  /\ arg.str.first = ""
  /\ arg.decoder = <<>>
  /\ arg.str.bytes # <<>>
  /\ arg.str.bytes[1].multihash # <<>>
  /\ IsError(res, "InvalidParametersError")
  /\ trace = <<"peerIdFromString">>

\* C21: in peerIdFromString a failure of the supplied decoder's decode step
\* is reported as a parameter error that names the cause, and after it
\* neither the multihash nor the CID reading of the string is attempted.
C21_DecoderFailureIsParameterError ==
  (/\ op = "peerIdFromString"
   /\ arg.str.first \notin {"1", "Q"}
   /\ arg.decoder # <<>>
   /\ arg.str.bytes = <<>>)
    => /\ IsError(res, "InvalidParametersError")
       /\ res.message
            = "The passed PeerID string could not be decoded using the provided multibase decoder"
       /\ Called("decoder.decode")
       /\ ~Called("Digest.decode")
       /\ ~Called("CID.decode")
       /\ ~Called("peerIdFromMultihash")
       /\ ~Called("peerIdFromCID")

\* a string the supplied decoder throws on was turned away
C21_Witness ==
  /\ op = "peerIdFromString"
  /\ arg.str.first = "k"
  /\ arg.decoder = <<"decoder">>
  /\ arg.str.bytes = <<>>
  /\ IsError(res, "InvalidParametersError")
  /\ trace = <<"peerIdFromString", "decoder.decode">>

\* the key given to peerIdFromPublicKey, directly or as the public key of
\* the private key given to peerIdFromPrivateKey
KeyGiven ==
  IF op = "peerIdFromPublicKey" THEN arg.publicKey ELSE arg.privateKey.publicKey

\* C22: peerIdFromPublicKey dispatches on the algorithm tag of the key: an
\* Ed25519 key yields an Ed25519PeerId, a secp256k1 key a Secp256k1PeerId,
\* each holding the multihash of the key's own CID and the key itself; a key
\* whose tag is none of Ed25519, secp256k1, RSA fails with the
\* unsupported-key-type error and no identity is returned.
C22_DispatchOnKeyType ==
  (op \in {"peerIdFromPublicKey", "peerIdFromPrivateKey"})
    => /\ KeyGiven.type \in {"Ed25519", "secp256k1"}
            => /\ res.kind = "ok"
               /\ res.value.type = KeyGiven.type
               /\ res.value.multihash = KeyGiven.multihash
               /\ res.value.publicKey = <<KeyGiven>>
               /\ res.value.url = <<>>
       /\ KeyGiven.type \notin {"Ed25519", "secp256k1", "RSA"}
            => IsError(res, "UnsupportedKeyTypeError")

\* an ECDSA key was turned away
C22_Witness ==
  /\ op = "peerIdFromPublicKey"
  /\ arg.publicKey.type = "ECDSA"
  /\ IsError(res, "UnsupportedKeyTypeError")
  /\ trace = <<"peerIdFromPublicKey">>

----------------------------------------------------------------------------
(* JWK to DER *)

\* the members of a JWK that jwkToPkcs1 encodes, in the order of the sequence
Pkcs1Members(jwk) == <<jwk.n, jwk.e, jwk.d, jwk.p, jwk.q, jwk.dp, jwk.dq, jwk.qi>>

\* the node is the DER Integer of the big integer the member holds
IsIntegerOf(node, member) ==
  /\ node.tag = "Integer"
  /\ IntegerToBigInt(node) = BigIntOf(FromBase64url(member[1]))

\* a member, when present, encodes a big integer: the base64url string of at
\* least one byte
EncodesBigInt(member) == member = <<>> \/ Len(FromBase64url(member[1])) >= 1

\* every member of the record that is present encodes a big integer
IsJwkRecord(jwk) == \A i \in 1..8 : EncodesBigInt(Pkcs1Members(jwk)[i])

C24_PkixParameterErrorIffAbsent ==
  (op = "jwkToPkix" /\ IsJwkRecord(arg.jwk))
    => LET absent == arg.jwk.n = <<>> \/ arg.jwk.e = <<>>
       IN  /\ IsError(res, "InvalidParametersError") <=> absent
           /\ ~absent
                => /\ res.kind = "ok"
                   /\ res.value.kind = "ber"
                   /\ res.value.node.tag = "Sequence"
                   /\ Len(res.value.node.value) = 2
                   /\ res.value.node.value[1] = Sequence(<<RsaEncryptionOid, Null>>)
                   /\ res.value.node.value[2].tag = "BitString"
                   /\ Len(res.value.node.value[2].value) = 1
                   /\ LET key == res.value.node.value[2].value[1]
                      IN  /\ key.tag = "Sequence"
                          /\ Len(key.value) = 2
                          /\ IsIntegerOf(key.value[1], arg.jwk.n)
                          /\ IsIntegerOf(key.value[2], arg.jwk.e)

\* the record with n, e, d, p, q, dp, dq, qi all absent was turned away
C24_Witness ==
  /\ op = "jwkToPkix"
  /\ \A i \in 1..8 : Pkcs1Members(arg.jwk)[i] = <<>>
  /\ IsError(res, "InvalidParametersError")
  /\ res.message = "JWK was missing components"

----------------------------------------------------------------------------
(* Big integers and bytes *)

\* the number a sequence of digits of the given base stands for, most
\* significant digit first
RECURSIVE ValueOf(_, _)
ValueOf(digits, base) ==
  IF Len(digits) = 0 THEN 0
  ELSE ValueOf(SubSeq(digits, 1, Len(digits) - 1), base) * base + digits[Len(digits)]

\* b is a run of zero bytes followed by m
ZerosThen(b, m) ==
  /\ Len(m) <= Len(b)
  /\ \A i \in 1..Len(b) :
       b[i] = IF i <= Len(b) - Len(m) THEN 0 ELSE m[i - (Len(b) - Len(m))]

\* C25: for every unsigned integer n, zero too, bufToBn(bnToBuf(n)) = n; and
\* for every byte array b on which bufToBn is defined, bnToBuf(bufToBn(b)) is
\* the big-endian bytes of the same number with no leading zero byte, but for
\* the single byte 0x00 that stands for zero.
C25_BigIntRoundTrip ==
  /\ op = "bnToBuf"
       => /\ bufToBn(res.value) = Ok(arg.bn)
          /\ ValueOf(res.value, 256) = ValueOf(arg.bn, 16)
  /\ (op = "bufToBn" /\ res.kind = "ok")
       => LET back == bnToBuf(res.value)
          IN  /\ Len(back) >= 1
              /\ back[1] = 0 => back = <<0>>
              /\ ZerosThen(arg.u8, back) \/ (back = <<0>> /\ ZerosThen(arg.u8, <<>>))

\* a number of three hex digits became two bytes, the first digit padded with
\* a zero, and reads back as the same number
C25_Witness ==
  /\ op = "bnToBuf"
  /\ arg.bn = <<10, 11, 12>>
  /\ res.value = <<10, 188>>
  /\ bufToBn(res.value) = Ok(arg.bn)

----------------------------------------------------------------------------
(* Identity preservation, fingerprint agreement, the size limit *)

\* C26: whenever peerIdFromMultihash(mh) returns, the multihash of the
\* identity it returns equals mh, for every variant, URLPeerId too; and
\* whenever peerIdFromCID(cid) returns, the multihash of the identity equals
\* cid.multihash.
C26_MultihashPreserved ==
  /\ (op = "peerIdFromMultihash" /\ res.kind = "ok")
       => res.value.multihash = arg.multihash
  /\ (op = "peerIdFromCID" /\ res.kind = "ok")
       => res.value.multihash = arg.cid.multihash[1]

\* C27: two RSA key objects for the same n and e carry the same fingerprint,
\* whichever entry point made them: for every PKIX byte string b that
\* pkixToRSAPublicKey accepts, the multihash of the key it returns equals the
\* multihash of the public key of jwkToRSAPrivateKey applied to a JWK with
\* the n and e of pkixToJwk(b).
C27_SameKeySameFingerprint ==
  (op = "pkixToRSAPublicKey" /\ res.kind = "ok")
    => LET viaJwk == jwkToRSAPrivateKey(pkixToJwk(arg.bytes).value).out
       IN  /\ viaJwk.kind = "ok"
           /\ viaJwk.value.publicKey.multihash = res.value.multihash

\* the call ended with the rejection of the key size
SizeRejected == res.kind = "err" /\ res.message = "Key size is too large"

\* the modulus of a JWK given to jwkToRSAPrivateKey is in its minimum number
\* of bytes (DER input is brought to that form by pkcs1ToJwk and pkixToJwk)
GivenMinimal == op = "jwkToRSAPrivateKey" => MinimalMember(arg.jwk.n)

\* C28: a key whose modulus has exactly MAX_RSA_KEY_SIZE (8192) bits is
\* accepted by pkixToRSAPublicKey and jwkToRSAPrivateKey, and
\* generateRSAKeyPair(8192) goes on to generate the key; the size test
\* rejects only sizes strictly greater than 8192.
C28_LimitIsInclusive ==
  /\ (/\ op \in {"pkixToRSAPublicKey", "jwkToRSAPrivateKey"}
      /\ InputModulus # <<>>
      /\ GivenMinimal
      /\ BitLength(InputModulus[1]) = 8192)
       => /\ ~SizeRejected
          /\ Called("rsaKeySize")
          /\ op = "pkixToRSAPublicKey" => (res.kind = "ok" /\ Called("sha256"))
          /\ (op = "jwkToRSAPrivateKey" /\ arg.jwk.e # <<>>)
               => (res.kind = "ok" /\ Called("sha256"))
  /\ (op = "generateRSAKeyPair" /\ arg.bits = 8192)
       => /\ res.kind = "ok"
          /\ Called("generateRSAKey")
  /\ SizeRejected
       => \/ op = "generateRSAKeyPair" /\ arg.bits > 8192
          \/ /\ op \in {"pkixToRSAPublicKey", "jwkToRSAPrivateKey", "pkcs1ToRSAPrivateKey"}
             /\ InputModulus # <<>>
             /\ GivenMinimal => BitLength(InputModulus[1]) > 8192

\* a JWK whose modulus has exactly 8192 bits was made a key object
C28_Witness ==
  /\ op = "jwkToRSAPrivateKey"
  /\ InputModulus # <<>>
  /\ GivenMinimal
  /\ BitLength(InputModulus[1]) = 8192
  /\ res.kind = "ok"
  /\ trace = <<"jwkToRSAPrivateKey", "rsaKeySize", "jwkToJWKKeyPair", "jwkToPkix", "sha256">>

\* a dial that got as far as creating its RTCPeerConnection
ConnectionCreated == op = "dial" /\ peerConnection # "none"

\* C29: dial never leaves an open peer connection behind a failed dial.
\* Once _connect has created the RTCPeerConnection, a dial that ends in an
\* error (the handshake rejected, or options.signal aborted first) has
\* closed the connection, close being the last call before the rethrow;
\* a dial that ends in a connection has not called close and the
\* connection is open; and close is never called while the handshake is
\* still pending.
C29_FailedDialClosesConnection ==
  ConnectionCreated =>
    /\ (pc = "idle" /\ res.kind = "err")
         => (peerConnection = "closed" /\ trace[Len(trace)] = "close")
    /\ (pc = "idle" /\ res.kind = "ok")
         => (peerConnection = "open" /\ ~Called("close"))
    /\ pc = "connecting" => (peerConnection = "open" /\ ~Called("close"))

\* a live signal was aborted during the handshake and the dial failed with
\* the abort error, the connection closed
C29_Witness ==
  /\ ConnectionCreated
  /\ arg.signal = "live"
  /\ signal = "aborted"
  /\ pc = "idle"
  /\ res = AbortError
  /\ peerConnection = "closed"

\* the dial cannot start: the signal is aborted at call time, the multiaddr
\* has no peer id, or peerIdFromString without a decoder throws on it
FailsEarly ==
  \/ arg.signal = "aborted"
  \/ arg.ma.peerId = <<>>
  \/ peerIdFromString(arg.ma.peerId[1], <<>>).out.kind = "err"

\* C30: dial fails before any RTCPeerConnection is created when
\* options.signal is already aborted at call time (abort error), when the
\* multiaddr carries no peer id (inappropriate-multiaddr error), or when
\* peerIdFromString without a decoder cannot resolve the peer id string
\* (its error; the parameter error for a string not starting with '1' or
\* 'Q').  The dial is over at once, no connection exists, and neither
\* createDialerRTCPeerConnection nor connect nor close was called.
C30_EarlyFailureCreatesNothing ==
  (op = "dial" /\ FailsEarly) =>
    /\ pc = "idle"
    /\ res.kind = "err"
    /\ peerConnection = "none"
    /\ ~Called("createDialerRTCPeerConnection")
    /\ ~Called("connect")
    /\ ~Called("close")
    /\ arg.signal = "aborted" => res = AbortError
    /\ (arg.signal # "aborted" /\ arg.ma.peerId = <<>>)
         => IsError(res, "inappropriateMultiaddr")
    /\ (arg.signal # "aborted" /\ arg.ma.peerId # <<>>)
         => res = peerIdFromString(arg.ma.peerId[1], <<>>).out
    /\ (arg.signal # "aborted" /\ arg.ma.peerId # <<>>
          /\ arg.ma.peerId[1].first \notin {"1", "Q"})
         => IsError(res, "InvalidParametersError")

\* a live signal, a multiaddr with a certhash and a peer id string starting
\* with 'k': the dial failed with the parameter error
C30_Witness ==
  /\ op = "dial"
  /\ arg.signal = "live"
  /\ arg.ma.certhash
  /\ arg.ma.peerId # <<>>
  /\ arg.ma.peerId[1].first = "k"
  /\ IsError(res, "InvalidParametersError")
  /\ peerConnection = "none"

====
